---- MODULE Spec2Model ----
(***************************************************************************)
(* State-machine model of the PSF photometry core of PIPE:                 *)
(*   src/pipe/psf.py    fit, fit_binary, _least_square                     *)
(*   src/syntstar.py    star_bg.image, star_bg.rotblur, rotate_position,   *)
(*                      derotate_position                                  *)
(*   src/psf_worker.py  make_psf, filter_pix                               *)
(* Floating point values are modelled as extended rationals <<n, d>>:      *)
(* d > 0 is the rational n/d in lowest terms, <<1,0>> and <<-1,0>> are the *)
(* two infinities and <<0,0>> is NaN, with the IEEE rules numpy follows    *)
(* for NaN propagation and for division by zero.                           *)
(***************************************************************************)
EXTENDS Integers, Sequences, FiniteSets, TLC

VARIABLES
    call,       \* fitters: which entry point was invoked
    pc,         \* fitters: position in the invoked function
    inp,        \* fitters: the arguments of the call
    aperture,   \* fitters: shape and selected pixels of the aperture array
    grid,       \* fitters: shape of the last evaluated PSF grid
    psf_norms,  \* fitters: psf_integral() of the PSF libraries
    kvec,       \* fitters: offset (blur kernel) coefficients
    w,          \* fitters: PSF library weights
    wsum,       \* fitters: the flux normalizer(s)
    lsq,        \* fitters: the running _least_square call
    ret,        \* fitters: the returned tuple
    err,        \* fitters: the exception that left the call
    img,        \* renderer: one call of star_bg.image
    rp,         \* rotation: a position, its rotation and de-rotation
    blur,       \* renderer: one call of star_bg.rotblur
    mk          \* PSF builder: the concurrent make_psf invocations

fitvars == <<call, pc, inp, aperture, grid, psf_norms, kvec, w, wsum, lsq, ret, err>>

others == <<img, rp, blur, mk>>

vars == <<fitvars, others>>

-----------------------------------------------------------------------------
(* Bounds of the model *)

MaxDim == 2        \* frames have 1..MaxDim rows and columns
MaxNpsf == 2       \* PSF libraries hold 1..MaxNpsf components
MaxKrnRad == 1     \* krn_rad in 0..MaxKrnRad
MaxImg == 2        \* rendered images have 1..MaxImg rows and columns
MaxCat == 2        \* the star catalogue holds up to MaxCat entries

-----------------------------------------------------------------------------
(* numpy float arithmetic on extended rationals *)

Sign(n) == IF n > 0 THEN 1 ELSE IF n < 0 THEN -1 ELSE 0

Abs(n) == IF n < 0 THEN -n ELSE n

RECURSIVE Gcd(_, _)
Gcd(a, b) == IF b = 0 THEN a ELSE Gcd(b, a % b)

Norm(n, d) ==
    IF d = 0 THEN <<Sign(n), 0>>
    ELSE LET g == Gcd(Abs(n), Abs(d))
         IN  <<(Sign(d) * n) \div g, Abs(d) \div g>>

NaN == <<0, 0>>

F(i) == <<i, 1>>

IsNaN(a) == a = NaN

IsInf(a) == a[2] = 0 /\ a[1] # 0

FMul(a, b) ==
    IF IsNaN(a) \/ IsNaN(b) THEN NaN
    ELSE IF IsInf(a) \/ IsInf(b) THEN <<Sign(a[1]) * Sign(b[1]), 0>>
    ELSE LET g == Gcd(Abs(a[1]), b[2])
             h == Gcd(Abs(b[1]), a[2])
         IN  Norm((a[1] \div g) * (b[1] \div h), (a[2] \div h) * (b[2] \div g))

FAdd(a, b) ==
    IF IsNaN(a) \/ IsNaN(b) THEN NaN
    ELSE IF IsInf(a) /\ IsInf(b) THEN (IF a = b THEN a ELSE NaN)
    ELSE IF IsInf(a) THEN a
    ELSE IF IsInf(b) THEN b
    ELSE LET g == Gcd(a[2], b[2])
         IN  Norm(a[1] * (b[2] \div g) + b[1] * (a[2] \div g),
                  (a[2] \div g) * b[2])

FDiv(a, b) ==
    IF IsNaN(a) \/ IsNaN(b) THEN NaN
    ELSE IF IsInf(a) /\ IsInf(b) THEN NaN
    ELSE IF IsInf(a) THEN <<a[1] * (IF b[1] < 0 THEN -1 ELSE 1), 0>>
    ELSE IF IsInf(b) THEN F(0)
    ELSE IF b[1] = 0 THEN <<Sign(a[1]), 0>>
    ELSE LET g == Gcd(Abs(a[1]), Abs(b[1]))
             h == Gcd(a[2], b[2])
         IN  Norm((a[1] \div g) * (b[2] \div h) * Sign(b[1]),
                  (a[2] \div h) * (Abs(b[1]) \div g))

RECURSIVE FSum(_)
FSum(s) == IF s = <<>> THEN F(0) ELSE FAdd(Head(s), FSum(Tail(s)))

\* s[:n] of a numpy vector
Take(s, n) == SubSeq(s, 1, IF n > Len(s) THEN Len(s) ELSE n)

\* s[a:b] of a numpy vector, 0-based half-open
Slice(s, a, b) == SubSeq(s, a + 1, IF b > Len(s) THEN Len(s) ELSE b)

\* a * b of two 1-D arrays: elementwise, a length-1 array broadcasts
CanMul(a, b) == Len(a) = Len(b) \/ Len(a) = 1 \/ Len(b) = 1

VecMul(a, b) ==
    LET n == IF Len(a) > Len(b) THEN Len(a) ELSE Len(b)
    IN  [i \in 1..n |-> FMul(a[IF Len(a) = 1 THEN 1 ELSE i],
                             b[IF Len(b) = 1 THEN 1 ELSE i])]

\* v / s of a 1-D array by a scalar
VecDiv(v, s) == [i \in 1..Len(v) |-> FDiv(v[i], s)]

-----------------------------------------------------------------------------
(* Array shapes <<rows, columns>> *)

Shapes == (1..MaxDim) \X (1..MaxDim)

\* coo_mat(frame.shape, xc, yc): coordinate matrices on the frame's pixels,
\* row index = y, column index = x
CooMatShape(shape) == shape

CooMatX(r, c, xc) == c - xc

CooMatY(r, c, yc) == r - yc

Pixels(shape) == (0..(shape[1] - 1)) \X (0..(shape[2] - 1))

\* xcoo = np.arange(frame.shape[0]) - xc
XcooLen(shape) == shape[1]

\* ycoo = np.arange(frame.shape[1]) - yc
YcooLen(shape) == shape[2]

\* psf(rows, cols): a grid with one row per entry of the first argument
PsfCall(nrows, ncols) == <<nrows, ncols>>

\* psf_list[m](ycoo - yk[n], xcoo - xk[n])
PsfEval(shape) == PsfCall(YcooLen(shape), XcooLen(shape))

NoShape == <<0, 0>>

\* numpy broadcasting of two 2-D shapes, NoShape when they do not broadcast
Broadcast(a, b) ==
    IF \A i \in 1..2 : a[i] = b[i] \/ a[i] = 1 \/ b[i] = 1
    THEN [i \in 1..2 |-> IF a[i] = 1 THEN b[i] ELSE a[i]]
    ELSE NoShape

\* arr[boolmask] needs a mask of arr's shape
BoolIndexOk(arrshape, maskshape) == arrshape = maskshape

\* target += src needs src to broadcast to target's shape
InPlaceAddOk(target, src) == Broadcast(target, src) = target

\* number of blur-grid offsets, len(xk)
NkOf(krn_rad) == (2 * krn_rad + 1) * (2 * krn_rad + 1)

\* np.reshape(kvec[a:a+Nk], (len(xkern), len(xkern)))
Reshape(v, side) ==
    [r \in 1..side |-> [c \in 1..side |-> v[(r - 1) * side + c]]]

-----------------------------------------------------------------------------
(* _least_square: the linear solve with its retry *)

\* values a solver can put into a coefficient vector, by the kind of data
\* the call was given
SolVals(data) ==
    IF data = "plain" THEN {F(1)}
    ELSE IF data = "sparse" THEN {F(0), F(1)}
    ELSE {NaN, F(0), F(1)}

\* the coefficient vectors a solve over n columns may return
SolVecs(n, data) ==
    IF n <= 2 THEN [1..n -> SolVals(data)]
    ELSE { [i \in 1..n |-> IF i = 1 THEN a ELSE IF i = n THEN c ELSE b] :
              a \in SolVals(data), b \in SolVals(data), c \in SolVals(data) }

LsqIdle ==
    [status |-> "idle", non_negative |-> FALSE, arg |-> "none", ncols |-> 0,
     attempts |-> <<>>, result |-> <<>>]

\* entry of _least_square(eq_mat, res_vec, non_negative)
LsqCall(arg, ncols, non_negative) ==
    [status |-> IF non_negative THEN "nnls" ELSE "first",
     non_negative |-> non_negative, arg |-> arg, ncols |-> ncols,
     attempts |-> <<>>, result |-> <<>>]

\* one call of the solver with the arguments of the running call
Attempt(l, solver, ok, v) ==
    [solver |-> solver, arg |-> l.arg, ok |-> ok, val |-> v]

\* return solver(...)[0]
LsqReturn(l, att) ==
    [l EXCEPT !.status = "returned", !.attempts = Append(@, att),
              !.result = att.val]

\* the solver's exception leaves _least_square
LsqRaise(l, att) ==
    [l EXCEPT !.status = "raised", !.attempts = Append(@, att)]

\* mutant of LsqExcept: no except clause, the first failure leaves the call
LsqExceptReraise(l, att) ==
    [l EXCEPT !.status = "raised", !.attempts = Append(@, att)]

\* the bare except clause catches the first lstsq failure: control goes to
\* the second lstsq call
LsqExcept(l, att) ==
    [l EXCEPT !.status = "retry", !.attempts = Append(@, att)]

\* line 228: nnls(eq_mat, res_vec)[0]
Nnls ==
    /\ lsq.status = "nnls"
    /\ \/ \E v \in SolVecs(lsq.ncols, inp.data) :
             lsq' = LsqReturn(lsq, Attempt(lsq, "nnls", TRUE, v))
       \/ lsq' = LsqRaise(lsq, Attempt(lsq, "nnls", FALSE, <<>>))
    /\ UNCHANGED <<call, pc, inp, aperture, grid, psf_norms, kvec, w, wsum, ret, err, others>>

\* line 233: the lstsq call in the try block
LstsqTry ==
    /\ lsq.status = "first"
    /\ \/ \E v \in SolVecs(lsq.ncols, inp.data) :
             lsq' = LsqReturn(lsq, Attempt(lsq, "lstsq", TRUE, v))
       \/ lsq' = LsqExcept(lsq, Attempt(lsq, "lstsq", FALSE, <<>>))
    /\ UNCHANGED <<call, pc, inp, aperture, grid, psf_norms, kvec, w, wsum, ret, err, others>>

\* line 235: the lstsq call in the except block
LstsqRetry ==
    /\ lsq.status = "retry"
    /\ \/ \E v \in SolVecs(lsq.ncols, inp.data) :
             lsq' = LsqReturn(lsq, Attempt(lsq, "lstsq", TRUE, v))
       \/ lsq' = LsqRaise(lsq, Attempt(lsq, "lstsq", FALSE, <<>>))
    /\ UNCHANGED <<call, pc, inp, aperture, grid, psf_norms, kvec, w, wsum, ret, err, others>>

\* an exception of the solve leaves the calling function as well
Propagate ==
    /\ lsq.status = "raised"
    /\ pc \notin {"done", "error"}
    /\ pc' = "error"
    /\ err' = "LinAlgError"
    /\ UNCHANGED <<call, inp, aperture, grid, psf_norms, kvec, w, wsum, lsq, ret, others>>

\* _least_square called on its own
LsqEnter ==
    /\ call = "_least_square"
    /\ pc = "start"
    /\ lsq' = LsqCall([pass |-> 0, ncols |-> inp.ncols], inp.ncols,
                      inp.non_negative)
    /\ pc' = "lsq_wait"
    /\ UNCHANGED <<call, inp, aperture, grid, psf_norms, kvec, w, wsum, ret, err, others>>

LsqDone ==
    /\ call = "_least_square"
    /\ pc = "lsq_wait"
    /\ lsq.status = "returned"
    /\ ret' = [kind |-> "_least_square", coef |-> lsq.result]
    /\ pc' = "done"
    /\ UNCHANGED <<call, inp, aperture, grid, psf_norms, kvec, w, wsum, lsq, err, others>>

-----------------------------------------------------------------------------
(* fit: single-source fitter *)

NoRet == [kind |-> "none"]

NoAperture == [shape |-> NoShape, sel |-> {}]

\* values psf_integral can report for a library component
NormVals(data) ==
    IF data = "plain" THEN {F(1)}
    ELSE IF data = "sparse" THEN {NaN, F(1), F(2)}
    ELSE {NaN, F(0), F(1), F(2)}

\* the results psf_integral may give for a library of n components
NormVecs(n, data) ==
    { [i \in 1..n |-> v] : v \in NormVals(data) }
    \cup { [i \in 1..n |-> IF i = 1 THEN F(2) ELSE v] : v \in NormVals(data) \ {NaN} }

\* number of design-matrix columns beside the fitted ones: the background
BgCols(bg_fit) == IF bg_fit = 0 THEN 1 ELSE 0

\* lines 84-91
LastW(bg_fit, wv) == IF bg_fit = 0 THEN Len(wv) - 1 ELSE Len(wv)

LastK(bg_fit, kv) == IF bg_fit = 0 THEN Len(kv) - 1 ELSE Len(kv)

FitBg(bg_fit, wv) == IF bg_fit = 0 THEN wv[Len(wv)] ELSE F(0)

\* line 94
FitWsum(norms, wv, last_w) == FSum(VecMul(norms, Take(wv, last_w)))

\* mutant of ClampWsum: the zero test is missing
ClampWsumNaNOnly(ws) == IF IsNaN(ws) THEN F(1) ELSE ws

\* lines 96-101
ClampWsum(ws) ==
    IF IsNaN(ws) THEN F(1)
    ELSE IF ws = F(0) THEN F(1)
    ELSE ws

\* line 103
FitReturn(shape, bg_fit, krn_rad, kv, wv, ws) ==
    [kind |-> "fit",
     psf  |-> shape,
     bg   |-> FitBg(bg_fit, wv),
     kmat |-> Reshape(Take(kv, NkOf(krn_rad)), 2 * krn_rad + 1),
     flux |-> FMul(FSum(Take(kv, LastK(bg_fit, kv))), ws),
     coef |-> VecDiv(Take(wv, LastW(bg_fit, wv)), ws)]

\* lines 29-37
FitAperture ==
    /\ call = "fit"
    /\ pc = "start"
    /\ aperture' = [shape |-> CooMatShape(inp.shape), sel |-> {}]
    /\ pc' = "fit_p1"
    /\ UNCHANGED <<call, inp, grid, psf_norms, kvec, w, wsum, lsq, ret, err, others>>

\* lines 39-61
FitPass1 ==
    /\ call = "fit"
    /\ pc = "fit_p1"
    /\ \E norms \in NormVecs(inp.Npsf, inp.data) : psf_norms' = norms
    /\ grid' = PsfEval(inp.shape)
    /\ IF BoolIndexOk(grid', aperture.shape)
       THEN /\ lsq' = LsqCall([pass |-> 1,
                               ncols |-> NkOf(inp.krn_rad) + BgCols(inp.bg_fit)],
                              NkOf(inp.krn_rad) + BgCols(inp.bg_fit), FALSE)
            /\ pc' = "fit_p2"
            /\ err' = err
       ELSE /\ lsq' = lsq
            /\ pc' = "error"
            /\ err' = "IndexError"
    /\ UNCHANGED <<call, inp, aperture, kvec, w, wsum, ret, others>>

\* lines 61-77
FitPass2 ==
    /\ call = "fit"
    /\ pc = "fit_p2"
    /\ lsq.status = "returned"
    /\ kvec' = lsq.result
    /\ grid' = PsfEval(inp.shape)
    /\ IF InPlaceAddOk(inp.shape, grid') /\ BoolIndexOk(inp.shape, aperture.shape)
       THEN /\ lsq' = LsqCall([pass |-> 2,
                               ncols |-> inp.Npsf + BgCols(inp.bg_fit)],
                              inp.Npsf + BgCols(inp.bg_fit), FALSE)
            /\ pc' = "fit_fin"
            /\ err' = err
       ELSE /\ lsq' = lsq
            /\ pc' = "error"
            /\ err' = "ValueError"
    /\ UNCHANGED <<call, inp, aperture, psf_norms, w, wsum, ret, others>>

\* lines 77-103
FitFinish ==
    /\ call = "fit"
    /\ pc = "fit_fin"
    /\ lsq.status = "returned"
    /\ w' = lsq.result
    /\ grid' = PsfEval(inp.shape)
    /\ IF /\ InPlaceAddOk(aperture.shape, grid')
          /\ CanMul(psf_norms, Take(w', LastW(inp.bg_fit, w')))
       THEN /\ wsum' = ClampWsum(FitWsum(psf_norms, w', LastW(inp.bg_fit, w')))
            /\ ret' = FitReturn(aperture.shape, inp.bg_fit, inp.krn_rad, kvec, w',
                                wsum')
            /\ pc' = "done"
            /\ err' = err
       ELSE /\ wsum' = wsum
            /\ ret' = ret
            /\ pc' = "error"
            /\ err' = "ValueError"
    /\ UNCHANGED <<call, inp, aperture, psf_norms, kvec, lsq, others>>

-----------------------------------------------------------------------------
(* fit_binary: binary-source fitter *)

\* source centres <<xc, yc>> offered to fit_binary
Centres == {<<0, 0>>, <<1, 0>>, <<2, 2>>}

FitRads == {0, 1}

NoMask == [none |-> TRUE, sel |-> {}]

\* the masks offered for a frame: None, or a boolean array of its shape
Masks(shape) ==
    {NoMask} \cup
    { [none |-> FALSE, sel |-> S] :
        S \in { Pixels(shape), {},
                {p \in Pixels(shape) : p[1] = 0},
                {p \in Pixels(shape) : p[2] = 0},
                {p \in Pixels(shape) : p[1] # p[2]} } }

\* squared distance of pixel p = <<row, column>> to the centre c = <<xc, yc>>
Dist2(p, c) ==
    CooMatX(p[1], p[2], c[1]) * CooMatX(p[1], p[2], c[1])
    + CooMatY(p[1], p[2], c[2]) * CooMatY(p[1], p[2], c[2])

\* lines 130-131: xmat**2 + ymat**2 > fitrad**2
NotSel(p, c, fitrad) == Dist2(p, c) > fitrad * fitrad

\* product of two boolean arrays, as an integer
BoolMul(a, b) == IF a /\ b THEN 1 ELSE 0

\* mutant of GeomAperture: a pixel must lie within fitrad of both sources
GeomApertureBoth(p, c0, c1, fitrad) ==
    ~NotSel(p, c0, fitrad) /\ ~NotSel(p, c1, fitrad)

\* line 134: aperture = (notsel0*notsel1 == 0)
GeomAperture(p, c0, c1, fitrad) ==
    BoolMul(NotSel(p, c0, fitrad), NotSel(p, c1, fitrad)) = 0

\* lines 136-137: aperture *= mask, unless mask is None
MaskedAperture(geom, mask, p) ==
    IF mask.none THEN geom ELSE geom /\ p \in mask.sel

\* line 214-215
BinWsum0(norms, wv, Npsf) == FSum(VecMul(norms, Take(wv, Npsf)))

BinWsum1(norms, wv, Npsf) == FSum(VecMul(norms, Slice(wv, Npsf, Len(wv) - 1)))

\* lines 210-218
BinReturn(shape, krn_rad, Npsf, kv, wv, wsum0, wsum1) ==
    [kind  |-> "fit_binary",
     psf0  |-> shape,
     psf1  |-> shape,
     bg    |-> kv[Len(kv)],
     kmat0 |-> Reshape(Take(kv, NkOf(krn_rad)), 2 * krn_rad + 1),
     kmat1 |-> Reshape(Slice(kv, NkOf(krn_rad), 2 * NkOf(krn_rad)),
                       2 * krn_rad + 1),
     flux0 |-> FMul(FSum(Take(kv, NkOf(krn_rad))), wsum0),
     flux1 |-> FMul(FSum(Slice(kv, NkOf(krn_rad), 2 * NkOf(krn_rad))), wsum1),
     coef0 |-> VecDiv(Take(wv, Npsf), wsum0),
     coef1 |-> VecDiv(Slice(wv, Npsf, Len(wv) - 1), wsum1)]

\* lines 123-141
BinAperture ==
    /\ call = "fit_binary"
    /\ pc = "start"
    /\ aperture' =
         [shape |-> CooMatShape(inp.shape),
          sel   |-> {p \in Pixels(inp.shape) :
                       MaskedAperture(GeomAperture(p, inp.c0, inp.c1, inp.fitrad),
                                      inp.mask, p)}]
    /\ pc' = "bin_p1"
    /\ UNCHANGED <<call, inp, grid, psf_norms, kvec, w, wsum, lsq, ret, err, others>>

\* lines 143-165
BinPass1 ==
    /\ call = "fit_binary"
    /\ pc = "bin_p1"
    /\ grid' = Broadcast(PsfEval(inp.shape), CooMatShape(inp.shape))
    /\ IF grid' = NoShape
       THEN /\ pc' = "error"
            /\ err' = "ValueError"
            /\ lsq' = lsq
       ELSE IF ~BoolIndexOk(grid', aperture.shape)
       THEN /\ pc' = "error"
            /\ err' = "IndexError"
            /\ lsq' = lsq
       ELSE /\ lsq' = LsqCall([pass |-> 1, ncols |-> 2 * NkOf(inp.krn_rad) + 1],
                              2 * NkOf(inp.krn_rad) + 1, FALSE)
            /\ pc' = "bin_p2"
            /\ err' = err
    /\ UNCHANGED <<call, inp, aperture, psf_norms, kvec, w, wsum, ret, others>>

\* lines 165-183
BinPass2 ==
    /\ call = "fit_binary"
    /\ pc = "bin_p2"
    /\ lsq.status = "returned"
    /\ kvec' = lsq.result
    /\ grid' = Broadcast(PsfEval(inp.shape), CooMatShape(inp.shape))
    /\ IF InPlaceAddOk(inp.shape, grid') /\ BoolIndexOk(inp.shape, aperture.shape)
       THEN /\ lsq' = LsqCall([pass |-> 2, ncols |-> 2 * inp.Npsf + 1],
                              2 * inp.Npsf + 1, FALSE)
            /\ pc' = "bin_p3"
            /\ err' = err
       ELSE /\ lsq' = lsq
            /\ pc' = "error"
            /\ err' = "ValueError"
    /\ UNCHANGED <<call, inp, aperture, psf_norms, w, wsum, ret, others>>

\* lines 183-200
BinPass3 ==
    /\ call = "fit_binary"
    /\ pc = "bin_p3"
    /\ lsq.status = "returned"
    /\ w' = lsq.result
    /\ grid' = Broadcast(PsfEval(inp.shape), CooMatShape(inp.shape))
    /\ IF InPlaceAddOk(inp.shape, grid') /\ BoolIndexOk(inp.shape, aperture.shape)
       THEN /\ lsq' = LsqCall([pass |-> 3, ncols |-> 2 * NkOf(inp.krn_rad) + 1],
                              2 * NkOf(inp.krn_rad) + 1, FALSE)
            /\ pc' = "bin_fin"
            /\ err' = err
       ELSE /\ lsq' = lsq
            /\ pc' = "error"
            /\ err' = "ValueError"
    /\ UNCHANGED <<call, inp, aperture, psf_norms, kvec, wsum, ret, others>>

\* lines 200-218
BinFinish ==
    /\ call = "fit_binary"
    /\ pc = "bin_fin"
    /\ lsq.status = "returned"
    /\ kvec' = lsq.result
    /\ grid' = Broadcast(PsfEval(inp.shape), CooMatShape(inp.shape))
    /\ IF InPlaceAddOk(inp.shape, grid')
       THEN /\ \E n0 \in NormVecs(inp.Npsf, inp.data),
                  n1 \in NormVecs(inp.Npsf, inp.data) :
                  wsum' = <<BinWsum0(n0, w, inp.Npsf), BinWsum1(n1, w, inp.Npsf)>>
            /\ ret' = BinReturn(inp.shape, inp.krn_rad, inp.Npsf, kvec', w,
                                wsum'[1], wsum'[2])
            /\ pc' = "done"
            /\ err' = err
       ELSE /\ wsum' = wsum
            /\ ret' = ret
            /\ pc' = "error"
            /\ err' = "ValueError"
    /\ UNCHANGED <<call, inp, aperture, psf_norms, w, lsq, others>>

-----------------------------------------------------------------------------
(* The fitters' specification: one call of fit, fit_binary or _least_square *)

FitInputs ==
    [shape : Shapes, bg_fit : {0, 1}, Npsf : 1..MaxNpsf, krn_rad : 0..MaxKrnRad,
     data : {"wild"}]

\* fit_binary is called with every geometry on plain data, and with sparse
\* data on one geometry
BinInputs ==
    UNION { [shape : {sh}, Npsf : 1..MaxNpsf, krn_rad : 0..MaxKrnRad,
             mask : Masks(sh), c0 : Centres, c1 : Centres, fitrad : FitRads,
             data : {"plain"}] : sh \in Shapes }
    \cup
    [shape : Shapes, Npsf : 1..MaxNpsf, krn_rad : 0..MaxKrnRad,
     mask : {NoMask}, c0 : {<<0, 0>>}, c1 : {<<1, 0>>}, fitrad : {1},
     data : {"sparse"}]

LsqInputs == [non_negative : BOOLEAN, ncols : 1..3, data : {"wild"}]

\* no fitter is running
FitIdle ==
    /\ call = "none"
    /\ inp = [data |-> "plain"]
    /\ pc = "done"
    /\ aperture = NoAperture
    /\ grid = NoShape
    /\ psf_norms = <<>>
    /\ kvec = <<>>
    /\ w = <<>>
    /\ wsum = NaN
    /\ lsq = LsqIdle
    /\ ret = NoRet
    /\ err = "none"

Idle == [pc |-> "idle"]

InitFit ==
    /\ img = Idle
    /\ rp = Idle
    /\ blur = Idle
    /\ mk = Idle
    /\ call \in {"fit", "fit_binary", "_least_square"}
    /\ inp \in (IF call = "fit" THEN FitInputs
                ELSE IF call = "fit_binary" THEN BinInputs
                ELSE LsqInputs)
    /\ pc = "start"
    /\ aperture = NoAperture
    /\ grid = NoShape
    /\ psf_norms = <<>>
    /\ kvec = <<>>
    /\ w = <<>>
    /\ wsum = NaN
    /\ lsq = LsqIdle
    /\ ret = NoRet
    /\ err = "none"

NextFit ==
    \/ LsqEnter \/ LsqDone
    \/ Nnls \/ LstsqTry \/ LstsqRetry \/ Propagate
    \/ FitAperture \/ FitPass1 \/ FitPass2 \/ FitFinish
    \/ BinAperture \/ BinPass1 \/ BinPass2 \/ BinPass3 \/ BinFinish

SpecFit == InitFit /\ [][NextFit]_vars

-----------------------------------------------------------------------------
(* Claims about the fitters, checked under SpecFit *)

\* C1: every non_negative=False call of _least_square makes at most two
\* lstsq attempts, both with the call's own arguments; a successful first
\* attempt is returned without a second one; a failed first attempt is
\* retried exactly once; a successful retry is returned; a failed retry
\* raises to the caller, which returns nothing.
C1_RetryOnce ==
    (lsq.status # "idle" /\ ~lsq.non_negative) =>
        LET a == lsq.attempts
        IN  /\ Len(a) <= 2
            /\ \A i \in 1..Len(a) : a[i].solver = "lstsq" /\ a[i].arg = lsq.arg
            /\ lsq.status = "first" => Len(a) = 0
            /\ lsq.status = "retry" => Len(a) = 1 /\ ~a[1].ok
            /\ lsq.status = "returned" =>
                  /\ Len(a) >= 1
                  /\ a[Len(a)].ok
                  /\ lsq.result = a[Len(a)].val
                  /\ Len(a) = 2 => ~a[1].ok
            /\ lsq.status = "raised" =>
                  /\ Len(a) = 2
                  /\ ~a[1].ok /\ ~a[2].ok
                  /\ ret = NoRet
                  /\ pc # "done"
            /\ (pc = "error" /\ err = "LinAlgError") => lsq.status = "raised"

\* a solve of fit_binary whose first attempt failed and whose retry succeeded
C1_Witness ==
    /\ call = "fit_binary"
    /\ lsq.status = "returned"
    /\ Len(lsq.attempts) = 2
    /\ ~lsq.attempts[1].ok

\* C2: fit, for either bg_fit: with wsum = sum(psf_integral_m * w_m) over the
\* PSF weights only, when wsum is NaN or zero the returned flux-scale is the
\* sum of the kernel coefficients and the returned coefficients are w; for
\* any other wsum they are sum(kvec)*wsum and w/wsum.  Once w is solved, fit
\* returns without raising.
C2_ClampNormalizer ==
    (call = "fit" /\ w # <<>>) =>
        LET ws   == FSum([m \in 1..inp.Npsf |-> FMul(psf_norms[m], w[m])])
            ksum == FSum([n \in 1..NkOf(inp.krn_rad) |-> kvec[n]])
        IN  /\ pc = "done"
            /\ ret.kind = "fit"
            /\ IF IsNaN(ws) \/ ws = F(0)
               THEN /\ ret.flux = ksum
                    /\ ret.coef = [m \in 1..inp.Npsf |-> w[m]]
               ELSE /\ ret.flux = FMul(ksum, ws)
                    /\ ret.coef = [m \in 1..inp.Npsf |-> FDiv(w[m], ws)]

\* fit with a background term returned on a zero normalizer with a nonzero
\* PSF weight
C2_Witness ==
    /\ call = "fit"
    /\ pc = "done"
    /\ inp.bg_fit = 0
    /\ inp.Npsf = 2
    /\ FSum([m \in 1..inp.Npsf |-> FMul(psf_norms[m], w[m])]) = F(0)
    /\ w[1] = F(1)
    /\ w[3] = F(1)
    /\ ret.coef = <<F(1), F(0)>>

\* C3: fit_binary replaces a NaN or zero normalizer of either source by 1,
\* so that source's returned coefficients are its unnormalized weights.
C3_BinaryClamp ==
    (call = "fit_binary" /\ pc = "done") =>
        /\ (IsNaN(wsum[1]) \/ wsum[1] = F(0)) =>
               ret.coef0 = [m \in 1..inp.Npsf |-> w[m]]
        /\ (IsNaN(wsum[2]) \/ wsum[2] = F(0)) =>
               ret.coef1 = [m \in 1..inp.Npsf |-> w[inp.Npsf + m]]

\* C8: a pixel is in fit_binary's aperture iff the mask selects it (or is
\* None) and it lies within fitrad of source 0 or of source 1.
C8_ApertureIsUnion ==
    (call = "fit_binary" /\ pc # "start") =>
        /\ aperture.shape = inp.shape
        /\ \A p \in Pixels(inp.shape) :
              p \in aperture.sel <=>
                 /\ inp.mask.none \/ p \in inp.mask.sel
                 /\ \/ Dist2(p, inp.c0) <= inp.fitrad * inp.fitrad
                    \/ Dist2(p, inp.c1) <= inp.fitrad * inp.fitrad

\* an aperture with a pixel selected through source 1 alone, a pixel beyond
\* fitrad of both sources, and a pixel inside a disk that the mask removes
C8_Witness ==
    /\ call = "fit_binary"
    /\ pc = "bin_p1"
    /\ ~inp.mask.none
    /\ \E p \in aperture.sel :
          Dist2(p, inp.c0) > inp.fitrad * inp.fitrad
    /\ \E p \in Pixels(inp.shape) \ aperture.sel :
          /\ Dist2(p, inp.c0) > inp.fitrad * inp.fitrad
          /\ Dist2(p, inp.c1) > inp.fitrad * inp.fitrad
    /\ \E p \in Pixels(inp.shape) \ aperture.sel :
          Dist2(p, inp.c0) <= inp.fitrad * inp.fitrad

\* C9: for every frame shape the PSF grids fit and fit_binary evaluate have
\* the frame's shape, the aperture selection of a grid is well defined, and
\* the returned composite PSF has the frame's shape.
C9_GridHasFrameShape ==
    (call \in {"fit", "fit_binary"}) =>
        /\ grid # NoShape => grid = inp.shape
        /\ err \notin {"IndexError", "ValueError"}
        /\ pc = "done" =>
              IF call = "fit" THEN ret.psf = inp.shape
              ELSE ret.psf0 = inp.shape /\ ret.psf1 = inp.shape

-----------------------------------------------------------------------------
(* rotate_position, derotate_position *)

\* roll angles whose cosine and sine are exact: the multiples of 90 degrees
Quadrants == {-270, -180, -90, 0, 90, 180, 270, 360}

\* np.cos(np.deg2rad(rolldeg)) and np.sin(np.deg2rad(rolldeg))
CosDeg(d) ==
    LET m == ((d % 360) + 360) % 360
    IN  IF m = 0 THEN 1 ELSE IF m = 180 THEN -1 ELSE 0

SinDeg(d) ==
    LET m == ((d % 360) + 360) % 360
    IN  IF m = 90 THEN 1 ELSE IF m = 270 THEN -1 ELSE 0

\* lines 164-173
rotate_position(x, y, rolldeg) ==
    <<x * CosDeg(rolldeg) + y * SinDeg(rolldeg),
      (-x) * SinDeg(rolldeg) + y * CosDeg(rolldeg)>>

\* mutant of derotate_position: the angle is not negated
derotate_same_angle(xroll, yroll, rolldegs) ==
    rotate_position(xroll, yroll, rolldegs)

\* lines 176-180
derotate_position(xroll, yroll, rolldegs) ==
    rotate_position(xroll, yroll, -rolldegs)

-----------------------------------------------------------------------------
(* star_bg.image: the synthetic background renderer.  Positions are counted *)
(* in half pixels, flux ratios in units of 1e-4.                            *)

FluxUnit == 10000   \* flux ratio 1 in model units

\* int(v) of a value of v2 half pixels: truncation towards zero
IntOfHalves(v2) == IF v2 >= 0 THEN v2 \div 2 ELSE -((-v2) \div 2)

Min(a, b) == IF a < b THEN a ELSE b

Max(a, b) == IF a > b THEN a ELSE b

\* mutant of PsfRad: the tier limits are inclusive
PsfRadInclusive(f, max_psf_rad) ==
    IF f >= FluxUnit \div 10 THEN Min(70, max_psf_rad)
    ELSE IF f >= FluxUnit \div 1000 THEN Min(50, max_psf_rad)
    ELSE Min(30, max_psf_rad)

\* lines 98-103: 0.1 is FluxUnit \div 10, 1e-3 is FluxUnit \div 1000
PsfRad(f, max_psf_rad) ==
    IF f > FluxUnit \div 10 THEN Min(70, max_psf_rad)
    ELSE IF f > FluxUnit \div 1000 THEN Min(50, max_psf_rad)
    ELSE Min(30, max_psf_rad)

\* the indices a[lo:hi] selects in an array of n entries (Python slicing)
PySlice(lo, hi, n) ==
    LET b == IF lo < 0 THEN Max(lo + n, 0) ELSE Min(lo, n)
        e == IF hi < 0 THEN Max(hi + n, 0) ELSE Min(hi, n)
    IN  b..(e - 1)

\* mutant of ClampLo: the low edge is not clamped
ClampLoNone(lo) == lo

\* lines 110-111 and 117-118
ClampLo(lo) == Max(lo, 0)

ClampHi(hi, n) == Min(hi, n)

\* lines 107, 109, 114, 116
SkipHigh(lo, n) == lo >= n

SkipLow(hi) == hi <= 0

\* the per-star locals, before a star is read
NoStar ==
    [f |-> 0, dx |-> 0, dy |-> 0, psf_rad |-> 0, i |-> 0, j |-> 0,
     i0 |-> 0, i1 |-> 0, j0 |-> 0, j1 |-> 0, outcome |-> "none", window |-> {}]

\* lines 119-126 with the flat PSF psf_fun = 1: what the star adds to pixel
\* p = <<row, column>> of its window
Stamp(p, f, dx, dy, x0, y0, psf_rad) ==
    LET ddx == 2 * p[2] - x0 - dx
        ddy == 2 * p[1] - y0 - dy
    IN  IF ddx * ddx + ddy * ddy > 4 * psf_rad * psf_rad THEN 0 ELSE f

\* lines 94-126: one pass of the loop body for the catalogue entry
\* (f, xpos, ypos)
ImageStar(m, f, xpos, ypos) ==
    LET d  == rotate_position(xpos, ypos, m.roll)
        r  == PsfRad(f, m.max_psf_rad)
        i  == IntOfHalves(m.x0 + d[1])
        j  == IntOfHalves(m.y0 + d[2])
        W  == m.shape[2]
        H  == m.shape[1]
        base == [NoStar EXCEPT !.f = f, !.dx = d[1], !.dy = d[2]]
    IN  IF f < m.limflux
        THEN [m EXCEPT !.last = [base EXCEPT !.outcome = "faint"]]
        ELSE IF SkipHigh(i - r, W) \/ SkipLow(i + r)
        THEN [m EXCEPT !.last = [base EXCEPT !.psf_rad = r, !.i = i,
                                             !.i0 = i - r,
                                             !.i1 = IF SkipHigh(i - r, W) THEN 0 ELSE i + r,
                                             !.outcome = "skip"]]
        ELSE IF SkipHigh(j - r, H) \/ SkipLow(j + r)
        THEN [m EXCEPT !.last = [base EXCEPT !.psf_rad = r, !.i = i, !.j = j,
                                             !.i0 = ClampLo(i - r),
                                             !.i1 = ClampHi(i + r, W),
                                             !.j0 = j - r,
                                             !.j1 = IF SkipHigh(j - r, H) THEN 0 ELSE j + r,
                                             !.outcome = "skip"]]
        ELSE LET i0 == ClampLo(i - r)
                 i1 == ClampHi(i + r, W)
                 j0 == ClampLo(j - r)
                 j1 == ClampHi(j + r, H)
                 win == PySlice(j0, j1, H) \X PySlice(i0, i1, W)
             IN  [m EXCEPT
                    !.last = [base EXCEPT !.psf_rad = r, !.i = i, !.j = j,
                                          !.i0 = i0, !.i1 = i1, !.j0 = j0, !.j1 = j1,
                                          !.outcome = "drawn", !.window = win],
                    !.ret_img = [p \in Pixels(m.shape) |->
                                   IF p \in win
                                   THEN @[p] + Stamp(p, f, d[1], d[2], m.x0, m.y0, r)
                                   ELSE @[p]]]

\* flux ratios of catalogue entries: the tier limits 1e-3 and 0.1, their
\* neighbours, a faint and a bright star
FluxVals == {0, 1, 10, 11, 1000, 1001, 5000}

\* offsets along one axis, in half pixels
AxisVals == {-150, -5, -4, -3, -1, 0, 2, 4, 6, 150}

\* catalogue entries <<fscale, xpos, ypos>> offered to the loop: every flux
\* at two places, and a bright star at every offset along each axis and at
\* three corners
Stars ==
    { <<f, q[1], q[2]>> : f \in FluxVals, q \in {<<0, 0>>, <<64, 0>>} }
    \cup { <<5000, x, 0>> : x \in AxisVals }
    \cup { <<5000, 0, y>> : y \in AxisVals }
    \cup { <<5000, q[1], q[2]>> : q \in {<<-3, -3>>, <<6, 4>>, <<150, 150>>} }

NoId == [none |-> TRUE, id |-> 0]

\* lines 89-92
IdRange(catsize, target, single_id) ==
    IF single_id.none
    THEN [k \in 1..Max(catsize - target, 0) |-> target + k - 1]
    ELSE <<single_id.id>>

ImageInputs ==
    [shape : (1..MaxImg) \X (1..MaxImg),
     x0 : {1}, y0 : {0},
     roll : {0, 90},
     limflux : {0, 10},
     max_psf_rad : {0, 1, 40, 60, 80},
     ids : { [catsize |-> 0, target |-> 1, single_id |-> NoId],
             [catsize |-> MaxCat, target |-> 0, single_id |-> NoId],
             [catsize |-> MaxCat, target |-> 1, single_id |-> NoId],
             [catsize |-> MaxCat, target |-> 1,
              single_id |-> [none |-> FALSE, id |-> 0]] }]

\* lines 81-92
ImageEnter ==
    /\ img.pc = "start"
    /\ img' = [img EXCEPT
                 !.pc = "loop",
                 !.id_range = IdRange(img.ids.catsize, img.ids.target,
                                      img.ids.single_id),
                 !.ret_img = [p \in Pixels(img.shape) |-> 0]]
    /\ UNCHANGED <<fitvars, rp, blur, mk>>

\* lines 94-126: the loop body for the next entry of id_range
ImageLoop ==
    /\ img.pc = "loop"
    /\ img.id_range # <<>>
    /\ \E star \in Stars :
          img' = [ImageStar(img, star[1], star[2], star[3])
                    EXCEPT !.id_range = Tail(@)]
    /\ UNCHANGED <<fitvars, rp, blur, mk>>

\* line 127
ImageReturn ==
    /\ img.pc = "loop"
    /\ img.id_range = <<>>
    /\ img' = [img EXCEPT !.pc = "done"]
    /\ UNCHANGED <<fitvars, rp, blur, mk>>

InitImage ==
    /\ FitIdle
    /\ rp = Idle
    /\ blur = Idle
    /\ mk = Idle
    /\ \E in \in ImageInputs :
          img = [pc |-> "start", shape |-> in.shape, x0 |-> in.x0, y0 |-> in.y0,
                 roll |-> in.roll, limflux |-> in.limflux,
                 max_psf_rad |-> in.max_psf_rad, ids |-> in.ids,
                 id_range |-> <<>>, last |-> NoStar,
                 ret_img |-> [p \in Pixels(in.shape) |-> 0]]

NextImage == ImageEnter \/ ImageLoop \/ ImageReturn

SpecImage == InitImage /\ [][NextImage]_vars

-----------------------------------------------------------------------------
(* Claims about star_bg.image, checked under SpecImage *)

\* C4: the evaluation radius of a rendered star depends on its flux ratio f
\* and max_psf_rad alone: min(70, max_psf_rad) for f > 0.1, min(50,
\* max_psf_rad) for 1e-3 < f <= 0.1, min(30, max_psf_rad) otherwise; so 0.5
\* gets min(70, max_psf_rad), 1e-4 gets min(30, max_psf_rad), and no fainter
\* star gets a larger radius.
C4_RadiusTier ==
    (img.pc \in {"loop", "done"} /\ img.last.outcome \in {"skip", "drawn"}) =>
        LET f   == img.last.f
            cap == img.max_psf_rad
            r   == img.last.psf_rad
        IN  /\ 10 * f > FluxUnit => r = Min(70, cap)
            /\ (1000 * f > FluxUnit /\ 10 * f <= FluxUnit) => r = Min(50, cap)
            /\ 1000 * f <= FluxUnit => r = Min(30, cap)
            /\ 2 * f = FluxUnit => r = Min(70, cap)
            /\ 10000 * f = FluxUnit => r = Min(30, cap)
            /\ \A g \in FluxVals : g <= f => PsfRad(g, cap) <= r

\* a star of flux ratio exactly 0.1 drawn with radius 50 under a cap of 60
C4_Witness ==
    /\ img.pc = "loop"
    /\ img.last.outcome = "drawn"
    /\ 10 * img.last.f = FluxUnit
    /\ img.max_psf_rad = 60
    /\ img.last.psf_rad = 50

\* C5: for max_psf_rad >= 1, with i = int(x0+dx), j = int(y0+dy) and r the
\* star's radius: a star is skipped, addressing no pixel, exactly when its
\* window [i-r, i+r) x [j-r, j+r) misses the image; for a rendered star
\* 0 <= i0 < i1 <= W and 0 <= j0 < j1 <= H, and the accumulation addresses
\* exactly the pixels of the window that lie in the image, at least one.
C5_WindowInsideImage ==
    (/\ img.pc \in {"loop", "done"}
     /\ img.max_psf_rad >= 1
     /\ img.last.outcome \in {"skip", "drawn"}) =>
        LET l == img.last
            r == l.psf_rad
            i == IntOfHalves(img.x0 + l.dx)
            j == IntOfHalves(img.y0 + l.dy)
            H == img.shape[1]
            W == img.shape[2]
            inside == { p \in Pixels(img.shape) :
                          /\ i - r <= p[2] /\ p[2] < i + r
                          /\ j - r <= p[1] /\ p[1] < j + r }
        IN  /\ l.outcome = "skip" <=> inside = {}
            /\ l.outcome = "skip" => l.window = {}
            /\ l.outcome = "drawn" =>
                  /\ 0 <= l.i0 /\ l.i0 < l.i1 /\ l.i1 <= W
                  /\ 0 <= l.j0 /\ l.j0 < l.j1 /\ l.j1 <= H
                  /\ l.window = (l.j0..(l.j1 - 1)) \X (l.i0..(l.i1 - 1))
                  /\ l.window = inside
                  /\ l.window # {}

\* a rendered star whose window reaches beyond the image on the low side in
\* x and on the high side in y
C5_Witness ==
    /\ img.pc = "loop"
    /\ img.last.outcome = "drawn"
    /\ img.last.psf_rad = 1
    /\ img.last.i - img.last.psf_rad < 0
    /\ img.last.i0 = 0
    /\ img.last.j + img.last.psf_rad > img.shape[1]
    /\ img.last.j1 = img.shape[1]

-----------------------------------------------------------------------------
(* The rotation round trip *)

MaxCoord == 3      \* coordinates in -MaxCoord..MaxCoord

Rotate ==
    /\ rp.pc = "start"
    /\ rp' = [rp EXCEPT !.pc = "rotated",
                        !.rolled = rotate_position(rp.x, rp.y, rp.rolldeg)]
    /\ UNCHANGED <<fitvars, img, blur, mk>>

Derotate ==
    /\ rp.pc = "rotated"
    /\ rp' = [rp EXCEPT !.pc = "done",
                        !.back = derotate_position(rp.rolled[1], rp.rolled[2],
                                                   rp.rolldeg)]
    /\ UNCHANGED <<fitvars, img, blur, mk>>

InitRotate ==
    /\ FitIdle
    /\ img = Idle
    /\ blur = Idle
    /\ mk = Idle
    /\ \E x \in (-MaxCoord)..MaxCoord, y \in (-MaxCoord)..MaxCoord,
          d \in Quadrants :
          rp = [pc |-> "start", x |-> x, y |-> y, rolldeg |-> d,
                rolled |-> <<0, 0>>, back |-> <<0, 0>>]

NextRotate == Rotate \/ Derotate

SpecRotate == InitRotate /\ [][NextRotate]_vars

\* C6: rotate_position(x, y, t) is (x cos t + y sin t, -x sin t + y cos t)
\* and derotate_position of it with the same angle returns (x, y); checked
\* on integer coordinates and multiples of 90 degrees.
C6_RoundTrip ==
    /\ rp.pc \in {"rotated", "done"} =>
          rp.rolled = <<rp.x * CosDeg(rp.rolldeg) + rp.y * SinDeg(rp.rolldeg),
                        rp.y * CosDeg(rp.rolldeg) - rp.x * SinDeg(rp.rolldeg)>>
    /\ rp.pc = "done" => rp.back = <<rp.x, rp.y>>

\* (2, -1) rolled by 90 degrees to (-1, -2) and back
C6_Witness ==
    /\ rp.pc = "done"
    /\ rp.x = 2 /\ rp.y = -1
    /\ rp.rolldeg = 90
    /\ rp.rolled = <<-1, -2>>
    /\ rp.back = <<2, -1>>

-----------------------------------------------------------------------------
(* star_bg.rotblur.  Angles are counted in tenths of a degree. *)

MaxBlur == 9       \* blurdeg in 0..MaxBlur tenths of a degree

\* np.rad2deg(1), in units of 1e-4 tenths of a degree
Rad2DegE4 == 5729578

\* line 139-140: N = int(blurdeg / resolution) + 1 with
\* resolution = np.rad2deg(1/np.max(shape))/oversample
BlurCount(blurdeg, shape, oversample) ==
    (blurdeg * Max(shape[1], shape[2]) * oversample * 10000) \div Rad2DegE4 + 1

\* np.linspace(-1, 1, N): N evenly spaced samples from -1, the last one 1;
\* a single sample is the start
Linspace(N) ==
    [k \in 1..N |-> IF N = 1 THEN F(-1) ELSE Norm(2 * (k - 1) - (N - 1), N - 1)]

\* line 141
RollDegs(rolldeg, blurdeg, N) ==
    [k \in 1..N |-> FAdd(F(rolldeg), FMul(FMul(<<1, 2>>, F(blurdeg)), Linspace(N)[k]))]

\* lines 137-142
BlurEnter ==
    /\ blur.pc = "start"
    /\ LET N == BlurCount(blur.blurdeg, blur.shape, blur.oversample)
       IN  blur' = [blur EXCEPT !.pc = "loop", !.N = N,
                                !.rolldegs = RollDegs(blur.rolldeg, blur.blurdeg, N),
                                !.ret_img = <<>>]
    /\ UNCHANGED <<fitvars, img, rp, mk>>

\* lines 143-147: ret_img += self.image(..., roll, ...)/N, kept as the list
\* of the renders added and their weights
BlurLoop ==
    /\ blur.pc = "loop"
    /\ blur.rolldegs # <<>>
    /\ blur' = [blur EXCEPT
                  !.rolldegs = Tail(@),
                  !.ret_img = Append(@, [roll |-> Head(blur.rolldegs),
                                         weight |-> Norm(1, blur.N)])]
    /\ UNCHANGED <<fitvars, img, rp, mk>>

\* line 148
BlurReturn ==
    /\ blur.pc = "loop"
    /\ blur.rolldegs = <<>>
    /\ blur' = [blur EXCEPT !.pc = "done"]
    /\ UNCHANGED <<fitvars, img, rp, mk>>

InitBlur ==
    /\ FitIdle
    /\ img = Idle
    /\ rp = Idle
    /\ mk = Idle
    /\ \E sh \in {<<200, 200>>, <<100, 150>>}, os \in {1, 2},
          rd \in {-900, 0, 15}, bd \in 0..MaxBlur :
          blur = [pc |-> "start", shape |-> sh, oversample |-> os,
                  rolldeg |-> rd, blurdeg |-> bd, N |-> 0,
                  rolldegs |-> <<>>, ret_img |-> <<>>]

NextBlur == BlurEnter \/ BlurLoop \/ BlurReturn

SpecBlur == InitBlur /\ [][NextBlur]_vars

\* a <= b on finite values
FLeq(a, b) == a[1] * b[2] <= b[1] * a[2]

\* C10: for blurdeg >= 0 rotblur averages N = int(blurdeg/resolution)+1 >= 1
\* renders with weight 1/N each, at roll angles within
\* [rolldeg - blurdeg/2, rolldeg + blurdeg/2] whose mean is rolldeg; with
\* blurdeg = 0 it is the single render at rolldeg.
C10_BlurCentred ==
    blur.pc = "done" =>
        LET t  == blur.ret_img
            lo == FAdd(F(blur.rolldeg), Norm(-blur.blurdeg, 2))
            hi == FAdd(F(blur.rolldeg), Norm(blur.blurdeg, 2))
        IN  /\ blur.N >= 1
            /\ Len(t) = blur.N
            /\ \A k \in 1..Len(t) :
                  /\ t[k].weight = Norm(1, blur.N)
                  /\ FLeq(lo, t[k].roll) /\ FLeq(t[k].roll, hi)
            /\ FSum([k \in 1..Len(t) |-> t[k].weight]) = F(1)
            /\ FSum([k \in 1..Len(t) |-> t[k].roll]) = F(blur.N * blur.rolldeg)
            /\ blur.blurdeg = 0 => t = <<[roll |-> F(blur.rolldeg), weight |-> F(1)]>>

-----------------------------------------------------------------------------
(* make_psf and filter_pix, invoked from concurrent workers.                *)
(* scipy's LSQBivariateSpline is represented by the weighted least-squares  *)
(* fit of the simplest surface, a constant: it minimises                    *)
(* sum((w_i * (z_i - s(x_i, y_i)))**2) like the spline fit does, and it     *)
(* needs at least one sample.                                               *)

MaxWorkers == 2    \* concurrent make_psf invocations

Workers == 1..MaxWorkers

FNeg(a) == <<-a[1], a[2]>>

FSub(a, b) == FAdd(a, FNeg(b))

FAbs(a) == <<Abs(a[1]), a[2]>>

\* a < b of two floats: False when either is NaN
FLess(a, b) ==
    IF IsNaN(a) \/ IsNaN(b) THEN FALSE
    ELSE IF IsInf(a) \/ IsInf(b) THEN a # b /\ (a = <<-1, 0>> \/ b = <<1, 0>>)
    ELSE a[1] * b[2] < b[1] * a[2]

\* np.max of a 1-D array: NaN when an entry is NaN
RECURSIVE FMaxSeq(_)
FMaxSeq(s) ==
    IF Len(s) = 1 THEN s[1]
    ELSE LET m == FMaxSeq(Tail(s))
         IN  IF IsNaN(s[1]) \/ IsNaN(m) THEN NaN
             ELSE IF FLess(s[1], m) THEN m ELSE s[1]

FMean(s) == FDiv(FSum(s), F(Len(s)))

\* np.std(s)**2
FVar(s) ==
    LET m == FMean(s)
    IN  FMean([i \in 1..Len(s) |-> FMul(FSub(s[i], m), FSub(s[i], m))])

\* the k-th smallest entry of a sequence of integers
Kth(s, k) ==
    CHOOSE v \in {s[i] : i \in 1..Len(s)} :
        /\ Cardinality({i \in 1..Len(s) : s[i] < v}) < k
        /\ k <= Cardinality({i \in 1..Len(s) : s[i] <= v})

\* line 23: np.nanmedian(pix[:,3])
NanMedian(s) ==
    Norm(Kth(s, (Len(s) + 1) \div 2) + Kth(s, Len(s) \div 2 + 1), 2)

\* the rows of pix that sel selects: pix[sel, :]
RECURSIVE Selected(_, _)
Selected(pix, sel) ==
    IF pix = <<>> \/ sel = <<>> THEN <<>>
    ELSE IF Head(sel) THEN <<Head(pix)>> \o Selected(Tail(pix), Tail(sel))
    ELSE Selected(Tail(pix), Tail(sel))

\* lines 26-31: LSQBivariateSpline(x, y, z, w = w0/err, ...) on the rows
\* given: the constant c minimising sum((w_i*(z_i - c))**2)
LsqSurface(rows, w0) ==
    LET wt2 == [i \in 1..Len(rows) |->
                  FMul(FDiv(w0, F(rows[i][4])), FDiv(w0, F(rows[i][4])))]
    IN  [c |-> FDiv(FSum([i \in 1..Len(rows) |-> FMul(wt2[i], F(rows[i][3]))]),
                    FSum(wt2))]

\* psf_spline(x, y, grid=False)
EvalSurface(spline, x, y) == spline.c

ClipSigma == 3     \* filter_pix(psf_spline, pix, clip=3)

\* lines 41-45: |z - y| < clip*s*(|y| + k), compared on the squares (both
\* sides are non-negative)
filter_pix(spline, pix) ==
    LET y == [i \in 1..Len(pix) |-> EvalSurface(spline, pix[i][1], pix[i][2])]
        k == FMul(<<1, 10>>, FMaxSeq(y))
        q == [i \in 1..Len(pix) |-> FAdd(FAbs(y[i]), k)]
        r == [i \in 1..Len(pix) |-> FSub(F(pix[i][3]), y[i])]
        s2 == FVar([i \in 1..Len(pix) |-> FDiv(r[i], q[i])])
    IN  [i \in 1..Len(pix) |->
           FLess(FMul(r[i], r[i]),
                 FMul(FMul(F(ClipSigma * ClipSigma), s2), FMul(q[i], q[i])))]

\* samples <<x, y, value, uncertainty>>
Row(i, z, e) == <<(i % 3) - 1, (i \div 3) - 1, z, e>>

\* the sample sets callers hand to make_psf: eleven equal values and one
\* outlier; equal values only; three values of unequal uncertainty that no
\* clip removes
SampleSets ==
    { [i \in 1..12 |-> Row(i, IF i = 7 THEN 100 ELSE 10, 1)],
      [i \in 1..3 |-> Row(i, 5, 1)],
      [i \in 1..3 |-> Row(i, 10 * i, IF i = 3 THEN 2 ELSE 1)] }

NoSurface == [c |-> NaN]

\* the niter arguments callers pass (3 is the default)
Niters == {1, 3}

\* mutant of StoreSel: sel is a module-level variable all invocations share
StoreSelGlobal(m, wk, v) ==
    [m EXCEPT !.loc = [u \in DOMAIN @ |-> [@[u] EXCEPT !.sel = v]]]

\* sel = filter_pix(psf_spline, pix): sel is a local of the invocation
StoreSel(m, wk, v) == [m EXCEPT !.loc[wk].sel = v]

\* lines 20-23
MkEnter(wk) ==
    /\ mk.pc = "run"
    /\ mk.loc[wk].pc = "start"
    /\ mk' = [StoreSel(mk, wk, [i \in 1..Len(mk.arr[wk]) |-> TRUE]) EXCEPT
                !.loc[wk].pc = "fit",
                !.loc[wk].w0 = NanMedian([i \in 1..Len(mk.arr[wk]) |->
                                            mk.arr[wk][i][4]])]
    /\ UNCHANGED <<fitvars, img, rp, blur>>

\* lines 24-31: the spline fit of one iteration
MkFit(wk) ==
    /\ mk.pc = "run"
    /\ mk.loc[wk].pc = "fit"
    /\ LET rows == Selected(mk.arr[wk], mk.loc[wk].sel)
       IN  IF rows = <<>>
           THEN mk' = [mk EXCEPT !.loc[wk].pc = "error"]
           ELSE mk' = [mk EXCEPT
                         !.loc[wk].pc = "filter",
                         !.loc[wk].psf_spline = LsqSurface(rows, mk.loc[wk].w0)]
    /\ UNCHANGED <<fitvars, img, rp, blur>>

\* lines 32-34: the outlier filter that ends an iteration
MkFilter(wk) ==
    /\ mk.pc = "run"
    /\ mk.loc[wk].pc = "filter"
    /\ mk' = [StoreSel(mk, wk, filter_pix(mk.loc[wk].psf_spline, mk.arr[wk]))
                EXCEPT !.loc[wk].n = @ + 1,
                       !.loc[wk].pc = IF mk.loc[wk].n + 1 < mk.loc[wk].niter
                                      THEN "fit" ELSE "return"]
    /\ UNCHANGED <<fitvars, img, rp, blur>>

\* line 35
MkReturn(wk) ==
    /\ mk.pc = "run"
    /\ mk.loc[wk].pc = "return"
    /\ mk' = [mk EXCEPT !.loc[wk].pc = "done",
                        !.loc[wk].ret = mk.loc[wk].psf_spline]
    /\ UNCHANGED <<fitvars, img, rp, blur>>

InitMake ==
    /\ FitIdle
    /\ img = Idle
    /\ rp = Idle
    /\ blur = Idle
    /\ \E a \in [Workers -> SampleSets], it \in [Workers -> Niters] :
          mk = [pc |-> "run",
                given |-> a,
                arr |-> a,
                loc |-> [wk \in Workers |->
                           [pc |-> "start", niter |-> it[wk], n |-> 0,
                            sel |-> <<>>, w0 |-> NaN, psf_spline |-> NoSurface,
                            ret |-> NoSurface]]]

NextMake ==
    \E wk \in Workers : MkEnter(wk) \/ MkFit(wk) \/ MkFilter(wk) \/ MkReturn(wk)

SpecMake == InitMake /\ [][NextMake]_vars

\* make_psf run on its own: the surface it returns, or "error"
RECURSIVE Alone(_, _, _, _)
Alone(pix, sel, w0, left) ==
    LET rows == Selected(pix, sel)
    IN  IF rows = <<>> THEN [pc |-> "error", ret |-> NoSurface]
        ELSE IF left = 1 THEN [pc |-> "done", ret |-> LsqSurface(rows, w0)]
        ELSE Alone(pix, filter_pix(LsqSurface(rows, w0), pix), w0, left - 1)

MakePsfAlone(pix, niter) ==
    Alone(pix, [i \in 1..Len(pix) |-> TRUE],
          NanMedian([i \in 1..Len(pix) |-> pix[i][4]]), niter)

\* what every call the workers can make returns when run alone
AloneTable == [pix \in SampleSets, niter \in Niters |-> MakePsfAlone(pix, niter)]

\* C7: under every interleaving of the invocations each one ends as it does
\* when run alone on its sample set, with the same surface, and no
\* invocation changes a caller's sample array.
C7_NoInterference ==
    mk.pc = "run" =>
        /\ mk.arr = mk.given
        /\ \A wk \in Workers :
              mk.loc[wk].pc \in {"done", "error"} =>
                 LET alone == AloneTable[mk.given[wk], mk.loc[wk].niter]
                 IN  /\ mk.loc[wk].pc = alone.pc
                     /\ mk.loc[wk].ret = alone.ret

\* two invocations on different sample sets, both finished, one of which
\* clipped its outlier while the other ran
C7_Witness ==
    /\ mk.pc = "run"
    /\ mk.given[1] # mk.given[2]
    /\ mk.loc[1].pc = "done" /\ mk.loc[2].pc = "done"
    /\ mk.loc[1].niter = 3 /\ mk.loc[2].niter = 3
    /\ \E i \in 1..Len(mk.loc[1].sel) : ~mk.loc[1].sel[i]
    /\ \A i \in 1..Len(mk.loc[2].sel) : mk.loc[2].sel[i]
    /\ mk.loc[1].ret = [c |-> F(10)]

====
